---- MODULE Spec2Model ----
(***************************************************************************)
(* A model of rodio's queue2: a SourcesQueueController that sends sources  *)
(* and MusicPlayerCommands over two mpsc channels, and the SourcesQueue    *)
(* that polls both channels once per loop iteration of Iterator::next.     *)
(***************************************************************************)
EXTENDS Integers, Sequences, FiniteSets, TLC

\* ------------------------------------------------------------------ bounds
MaxSources == 2      \* sources appended in one behaviour
MaxLen == 1          \* samples in one appended source
MaxCmds == 2         \* commands sent in one behaviour
MaxRequests == 3     \* completed calls of Iterator::next
SilenceLen == 2      \* samples of one keep-alive silence (10 ms of 1 x 44100 Hz, scaled down)
MaxFrameLen == 3     \* the largest frame length a source is made to report
MaxHint == 3         \* how far the size hints reach from 0 and from THRESHOLD

\* ------------------------------------------------------------ source values
Commands == {"Play", "Pause", "Stop", "NextTrack"}

\* (channels, sample_rate) pairs of the sources the tests append
Formats == {[channels |-> 1, sample_rate |-> 48000], [channels |-> 2, sample_rate |-> 96000]}

\* source::Empty reports 1 channel at 48000 Hz and yields nothing
EmptyFmt == [channels |-> 1, sample_rate |-> 48000]

\* Zero::new(1, 44100)
SilenceFmt == [channels |-> 1, sample_rate |-> 44100]

\* A boxed source: its identity (0 for Empty and for silence), its format,
\* its number of samples and the iterator position.
EmptySource == [id |-> 0, fmt |-> EmptyFmt, len |-> 0, pos |-> 0]

Silence == [id |-> 0, fmt |-> SilenceFmt, len |-> SilenceLen, pos |-> 0]

\* S::zero_value(): what a paused consumer and the silence source both yield
Zero == [id |-> 0, n |-> 0]

\* Option::None returned by Iterator::next
EOS == [id |-> -1, n |-> 0]

\* The n-th sample of appended source id
SampleOf(id, n) == [id |-> id, n |-> n]

\* self.current.next(): Some(sample) and the advanced source, or None
source_next(s) ==
  IF s.pos < s.len
  THEN [some |-> TRUE,
        sample |-> IF s.id = 0 THEN Zero ELSE SampleOf(s.id, s.pos + 1),
        src |-> [s EXCEPT !.pos = @ + 1]]
  ELSE [some |-> FALSE, sample |-> EOS, src |-> s]

\* Option<usize>
None == [some |-> FALSE, val |-> 0]
Some(v) == [some |-> TRUE, val |-> v]

\* const THRESHOLD: usize in current_frame_len
THRESHOLD == 512

\* The frame lengths and upper size hints a current source is asked with
FrameLens == {None} \cup {Some(v) : v \in 0..MaxFrameLen}
SizeHints ==
  {None} \cup {Some(v) : v \in (0..MaxHint) \cup ((THRESHOLD - MaxHint)..(THRESHOLD + MaxHint))}

\* No call of current_frame_len was made yet
NoFrame == [asked |-> FALSE, src |-> [current_frame_len |-> None, size_hint |-> None],
            ret |-> None]

VARIABLES
  keep_alive_if_empty,  \* SourcesQueue.keep_alive_if_empty
  command_channel,      \* messages in flight on the command channel
  sound_channel,        \* messages in flight on the source channel
  sound_queue,          \* SourcesQueue.sound_queue
  current,              \* SourcesQueue.current
  paused,               \* SourcesQueue.paused
  pc,                   \* "idle": no call of next is running; "loop": between two iterations
  consumer_alive,       \* the SourcesQueue, and with it both Receivers, has not been dropped
  controller_alive,     \* the SourcesQueueController, and with it both Senders, has not been dropped
  failed,               \* a call on the controller panicked or handed an error to its caller
  frame,                \* the source last asked through current_frame_len, and the answer
  \* history variables: they record what happened and steer nothing
  out,                  \* the result of every completed call of next, in order
  appended,             \* the length of every appended source, in append order
  lateAppend,           \* a source was appended after the first call of next began
  sent,                 \* [n: commands sent so far, plain: none of them was Pause, NextTrack or Stop]
  stopAt,               \* the call of next that handled the last Stop, 0 once a source is appended after it
  reqStop,              \* the call of next that began last has handled a Stop
  halted,               \* the appended sources that were current when a Stop was handled
  skipped,              \* the appended sources that were current when a NextTrack was handled
  pauseAt,              \* the Pause sent last, while no command was sent after it
  resume,               \* "armed": Play was sent after that Pause took effect; then how the call after it began
  startEmpty,           \* the call of next that began last began with nothing left to play
  fresh,                \* the source appended last while the consumer idled on silence
  applied,              \* the serial of every command handled, in the order of the "Got command!" lines
  backlog,              \* [cmds, srcs]: the messages in flight when the controller was dropped
  refused               \* the kinds of message whose send met a dropped Receiver

hist == <<out, appended, lateAppend, sent, stopAt, reqStop, halted, skipped, pauseAt, resume,
          startEmpty, fresh, applied, backlog, refused>>

vars == <<keep_alive_if_empty, command_channel, sound_channel, sound_queue, current,
          paused, pc, consumer_alive, controller_alive, failed, frame, hist>>

\* The consumer as one value, for the operators below
Self == [sound_queue |-> sound_queue, current |-> current,
         keep_alive_if_empty |-> keep_alive_if_empty,
         command_channel |-> command_channel, sound_channel |-> sound_channel,
         paused |-> paused, connected |-> controller_alive, applied |-> applied]

\* F applied to the value of v, which is computed once
Once(v, F(_)) == CHOOSE y \in {F(x) : x \in {v}} : TRUE

\* -------------------------------------------------------- channel operators
\* mpsc::Sender::send: the message is queued while the Receiver exists, and
\* handed back in an Err once the Receiver has been dropped
channel_send(chan, receiver_alive, msg) ==
  IF receiver_alive
  THEN [ok |-> TRUE, chan |-> Append(chan, msg)]
  ELSE [ok |-> FALSE, chan |-> chan]

\* mpsc::Receiver::try_recv: the oldest queued message if there is one, also
\* after every Sender has been dropped; otherwise Empty or Disconnected, at once
try_recv(chan, connected) ==
  IF chan # <<>>
  THEN [ok |-> TRUE, msg |-> Head(chan), chan |-> Tail(chan), err |-> "none"]
  ELSE [ok |-> FALSE, chan |-> chan, err |-> IF connected THEN "Empty" ELSE "Disconnected"]

\* A controller call that unwraps the result of its send
controller_send_unwrap(chan, receiver_alive, msg) ==
  LET r == channel_send(chan, receiver_alive, msg)
  IN [chan |-> r.chan, failed |-> ~r.ok, err |-> ~r.ok]

\* let _ = self.<channel>.send(msg): the result of the send is discarded
controller_send(chan, receiver_alive, msg) ==
  LET r == channel_send(chan, receiver_alive, msg)
  IN [chan |-> r.chan, failed |-> FALSE, err |-> ~r.ok]

\* ------------------------------------------------------- consumer operators
\* go_next taking the source appended last instead of the one at the front
go_next_last(self) ==
  IF Len(self.sound_queue) = 0
  THEN IF self.keep_alive_if_empty
       THEN [ok |-> TRUE, self |-> [self EXCEPT !.current = Silence]]
       ELSE [ok |-> FALSE, self |-> self]
  ELSE [ok |-> TRUE,
        self |-> [self EXCEPT !.current = self.sound_queue[Len(self.sound_queue)],
                              !.sound_queue = SubSeq(self.sound_queue, 1,
                                                     Len(self.sound_queue) - 1)]]

\* go_next installing silence whatever keep_alive_if_empty says
go_next_always_alive(self) ==
  IF Len(self.sound_queue) = 0
  THEN [ok |-> TRUE, self |-> [self EXCEPT !.current = Silence]]
  ELSE [ok |-> TRUE,
        self |-> [self EXCEPT !.current = Head(self.sound_queue),
                              !.sound_queue = Tail(self.sound_queue)]]

\* go_next never installing silence
go_next_never_alive(self) ==
  IF Len(self.sound_queue) = 0
  THEN [ok |-> FALSE, self |-> self]
  ELSE [ok |-> TRUE,
        self |-> [self EXCEPT !.current = Head(self.sound_queue),
                              !.sound_queue = Tail(self.sound_queue)]]

\* go_next making the front source current without removing it from the queue
go_next_keep_head(self) ==
  IF Len(self.sound_queue) = 0
  THEN IF self.keep_alive_if_empty
       THEN [ok |-> TRUE, self |-> [self EXCEPT !.current = Silence]]
       ELSE [ok |-> FALSE, self |-> self]
  ELSE [ok |-> TRUE, self |-> [self EXCEPT !.current = Head(self.sound_queue)]]

\* fn go_next(&mut self) -> Result<(), ()>
go_next(self) ==
  IF Len(self.sound_queue) = 0
  THEN IF self.keep_alive_if_empty
       THEN [ok |-> TRUE, self |-> [self EXCEPT !.current = Silence]]
       ELSE [ok |-> FALSE, self |-> self]
  ELSE [ok |-> TRUE,
        self |-> [self EXCEPT !.current = Head(self.sound_queue),
                              !.sound_queue = Tail(self.sound_queue)]]

\* handle_command with a Pause that leaves the paused flag alone
handle_command_pause_ignored(self, command) ==
  LET s1 == [self EXCEPT !.applied = Append(@, command.k)]
  IN CASE command.c = "Play" -> [s1 EXCEPT !.paused = FALSE]
       [] command.c = "Pause" -> s1
       [] command.c = "NextTrack" -> go_next(s1).self
       [] command.c = "Stop" -> go_next([s1 EXCEPT !.sound_queue = <<>>]).self

\* handle_command with a Stop that also clears the paused flag
handle_command_stop_unpauses(self, command) ==
  LET s1 == [self EXCEPT !.applied = Append(@, command.k)]
  IN CASE command.c = "Play" -> [s1 EXCEPT !.paused = FALSE]
       [] command.c = "Pause" -> [s1 EXCEPT !.paused = TRUE]
       [] command.c = "NextTrack" -> go_next(s1).self
       [] command.c = "Stop" -> go_next([s1 EXCEPT !.sound_queue = <<>>, !.paused = FALSE]).self

\* fn handle_command(&mut self, command)
handle_command(self, command) ==
  LET s1 == [self EXCEPT !.applied = Append(@, command.k)]
  IN CASE command.c = "Play" -> [s1 EXCEPT !.paused = FALSE]
       [] command.c = "Pause" -> [s1 EXCEPT !.paused = TRUE]
       [] command.c = "NextTrack" -> go_next(s1).self
       [] command.c = "Stop" -> go_next([s1 EXCEPT !.sound_queue = <<>>]).self

\* read_command_channel handling the waiting command and leaving it in the channel
read_command_channel_peek(self) ==
  IF self.command_channel # <<>>
  THEN handle_command(self, Head(self.command_channel))
  ELSE self

\* read_command_channel polling the command channel only while nothing is paused
read_command_channel_unless_paused(self) ==
  IF self.command_channel # <<>> /\ ~self.paused
  THEN handle_command([self EXCEPT !.command_channel = Tail(@)], Head(self.command_channel))
  ELSE self

\* fn read_command_channel(&mut self): one try_recv
read_command_channel(self) ==
  Once(try_recv(self.command_channel, self.connected),
       LAMBDA r : IF r.ok
                  THEN handle_command([self EXCEPT !.command_channel = r.chan], r.msg)
                  ELSE self)

\* read_sound_channel that stops polling once every Sender is gone
read_sound_channel_while_connected(self) ==
  LET r == try_recv(self.sound_channel, self.connected)
  IN IF r.ok /\ self.connected
     THEN [self EXCEPT !.sound_queue = Append(@, r.msg), !.sound_channel = r.chan]
     ELSE self

\* fn read_sound_channel(&mut self): one try_recv
read_sound_channel(self) ==
  Once(try_recv(self.sound_channel, self.connected),
       LAMBDA r : IF r.ok
                  THEN [self EXCEPT !.sound_queue = Append(@, r.msg), !.sound_channel = r.chan]
                  ELSE self)

\* The loop iteration asking the current source before it looks at the paused flag
next_iteration_pause_late(self) ==
  LET s2 == read_sound_channel(read_command_channel(self))
      r == source_next(s2.current)
      g == go_next(s2)
  IN IF r.some THEN [ret |-> TRUE, val |-> r.sample, self |-> [s2 EXCEPT !.current = r.src]]
     ELSE IF s2.paused THEN [ret |-> TRUE, val |-> Zero, self |-> s2]
     ELSE IF ~g.ok THEN [ret |-> TRUE, val |-> EOS, self |-> g.self]
     ELSE [ret |-> FALSE, val |-> EOS, self |-> g.self]

\* The loop iteration polling the source channel only after it picked the next source
next_iteration_late_read(self) ==
  LET s1 == read_command_channel(self)
      r == source_next(s1.current)
      g == go_next(s1)
  IN IF s1.paused THEN [ret |-> TRUE, val |-> Zero, self |-> read_sound_channel(s1)]
     ELSE IF r.some
          THEN [ret |-> TRUE, val |-> r.sample,
                self |-> read_sound_channel([s1 EXCEPT !.current = r.src])]
     ELSE IF ~g.ok THEN [ret |-> TRUE, val |-> EOS, self |-> read_sound_channel(g.self)]
     ELSE [ret |-> FALSE, val |-> EOS, self |-> read_sound_channel(g.self)]

\* One iteration of the loop of Iterator::next: the consumer afterwards, whether
\* the call returns, and what it returns.
next_iteration(self) ==
  Once(read_command_channel(self), LAMBDA s1 :
  Once(read_sound_channel(s1), LAMBDA s2 :
    LET r == source_next(s2.current)
        g == go_next(s2)
    IN IF s2.paused THEN [ret |-> TRUE, val |-> Zero, self |-> s2]
       ELSE IF r.some
            THEN [ret |-> TRUE, val |-> r.sample, self |-> [s2 EXCEPT !.current = r.src]]
       ELSE IF ~g.ok THEN [ret |-> TRUE, val |-> EOS, self |-> g.self]
       ELSE [ret |-> FALSE, val |-> EOS, self |-> g.self]))

\* current_frame_len returning a frame length of 0 when the source reports one
current_frame_len_zero(src) ==
  IF src.current_frame_len.some
  THEN Some(src.current_frame_len.val)
  ELSE IF src.size_hint.some /\ src.size_hint.val < THRESHOLD /\ src.size_hint.val # 0
       THEN Some(src.size_hint.val)
       ELSE Some(THRESHOLD)

\* fn current_frame_len(&self) -> Option<usize>, on what self.current reports
current_frame_len(src) ==
  IF src.current_frame_len.some /\ src.current_frame_len.val # 0
  THEN Some(src.current_frame_len.val)
  ELSE IF src.size_hint.some /\ src.size_hint.val < THRESHOLD /\ src.size_hint.val # 0
       THEN Some(src.size_hint.val)
       ELSE Some(THRESHOLD)

\* fn channels(&self), fn sample_rate(&self)
channels == current.fmt.channels

sample_rate == current.fmt.sample_rate

\* ------------------------------------------------------------------- state
NoPause == [clean |-> FALSE, from |-> 0]

NoFresh == [id |-> 0, req |-> 0]

\* The index the next call of next to begin will have in out
NextRequest == IF pc = "idle" THEN Len(out) + 1 ELSE Len(out) + 2

\* The index in out of the call that the next loop iteration belongs to
ThisRequest == Len(out) + 1

\* The current source has nothing left
Exhausted(s) == s.pos >= s.len

\* The consumer has nothing left to play and nothing waiting
NothingToPlay == Exhausted(current) /\ sound_queue = <<>> /\ sound_channel = <<>>

\* The consumer is between two calls, playing keep-alive silence, with nothing waiting
IdlingOnSilence ==
  /\ keep_alive_if_empty /\ pc = "idle" /\ ~paused
  /\ current.id = 0 /\ sound_queue = <<>> /\ sound_channel = <<>>
  /\ command_channel = <<>>
  /\ Len(out) >= 1 /\ out[Len(out)] = Zero

\* fn queue2(keep_alive_if_empty)
Init ==
  /\ keep_alive_if_empty \in BOOLEAN
  /\ command_channel = <<>>
  /\ sound_channel = <<>>
  /\ sound_queue = <<>>
  /\ current = EmptySource
  /\ paused = FALSE
  /\ pc = "idle"
  /\ consumer_alive = TRUE
  /\ controller_alive = TRUE
  /\ failed = FALSE
  /\ frame = NoFrame
  /\ out = <<>>
  /\ appended = <<>>
  /\ lateAppend = FALSE
  /\ sent = [n |-> 0, plain |-> TRUE]
  /\ stopAt = 0
  /\ reqStop = FALSE
  /\ halted = {}
  /\ skipped = {}
  /\ pauseAt = NoPause
  /\ resume = "no"
  /\ startEmpty = FALSE
  /\ fresh = NoFresh
  /\ applied = <<>>
  /\ backlog = [cmds |-> 0, srcs |-> 0]
  /\ refused = {}

\* SourcesQueueController::append
append(len, fmt) ==
  LET r == controller_send(sound_channel, consumer_alive,
                           [id |-> Len(appended) + 1, fmt |-> fmt, len |-> len, pos |-> 0])
  IN
  /\ controller_alive
  /\ Len(appended) < MaxSources
  /\ sound_channel' = r.chan
  /\ failed' = (failed \/ r.failed)
  /\ refused' = IF r.err THEN refused \cup {"source"} ELSE refused
  /\ appended' = Append(appended, len)
  /\ lateAppend' = (lateAppend \/ pc # "idle" \/ Len(out) > 0)
  /\ fresh' = IF IdlingOnSilence /\ len >= 1
              THEN [id |-> Len(appended) + 1, req |-> Len(out) + 1]
              ELSE fresh
  /\ stopAt' = 0
  /\ UNCHANGED <<keep_alive_if_empty, command_channel, sound_queue, current, paused, pc,
                 out, sent, reqStop, halted, skipped, pauseAt, resume, startEmpty, applied,
                 consumer_alive, controller_alive, frame, backlog>>

\* What pause, play, next and stop share: one send on the command channel
send(c) ==
  LET r == controller_send(command_channel, consumer_alive, [c |-> c, k |-> sent.n + 1])
  IN
  /\ controller_alive
  /\ sent.n < MaxCmds
  /\ command_channel' = r.chan
  /\ failed' = (failed \/ r.failed)
  /\ refused' = IF r.err THEN refused \cup {"command"} ELSE refused
  /\ sent' = [n |-> sent.n + 1, plain |-> sent.plain /\ c = "Play"]
  /\ pauseAt' = IF c = "Pause"
                THEN [clean |-> command_channel = <<>>, from |-> NextRequest]
                ELSE NoPause
  /\ resume' = IF /\ c = "Play" /\ pauseAt.from # 0 /\ pauseAt.clean
                  /\ command_channel = <<>> /\ pc = "idle"
               THEN "armed" ELSE "no"
  /\ UNCHANGED <<keep_alive_if_empty, sound_channel, sound_queue, current, paused, pc,
                 out, appended, lateAppend, stopAt, reqStop, halted, skipped, startEmpty, fresh,
                 applied, consumer_alive, controller_alive, frame, backlog>>

\* SourcesQueueController::pause
pause == send("Pause")

\* SourcesQueueController::play
play == send("Play")

\* SourcesQueueController::next
controller_next == send("NextTrack")

\* SourcesQueueController::stop
stop == send("Stop")

\* The next loop iteration will receive and handle command c
Handling(c) == command_channel # <<>> /\ Head(command_channel).c = c

\* One loop iteration of Iterator::next on the program's state. The two try_recv
\* are the only points where the consumer meets the producer threads; a send
\* that lands between them has the effect of one landing before the iteration
\* (a source) or after it (a command), so the iteration is one step and the
\* controller's sends interleave between iterations.
Iterate ==
  \E res \in {next_iteration(Self)} :
     /\ sound_queue' = res.self.sound_queue
     /\ current' = res.self.current
     /\ paused' = res.self.paused
     /\ command_channel' = res.self.command_channel
     /\ sound_channel' = res.self.sound_channel
     /\ applied' = res.self.applied
     /\ pc' = IF res.ret THEN "idle" ELSE "loop"
     /\ out' = IF res.ret THEN Append(out, res.val) ELSE out
     /\ stopAt' = IF Handling("Stop") THEN ThisRequest ELSE stopAt
     /\ reqStop' = (Handling("Stop") \/ (pc = "loop" /\ reqStop))
     /\ halted' = IF Handling("Stop") /\ current.id > 0 THEN halted \cup {current.id} ELSE halted
     /\ skipped' = IF Handling("NextTrack") /\ current.id > 0
                   THEN skipped \cup {current.id} ELSE skipped
     /\ UNCHANGED <<keep_alive_if_empty, appended, lateAppend, sent, pauseAt, fresh,
                    consumer_alive, controller_alive, failed, frame, backlog, refused>>

\* Iterator::next is called: its first loop iteration
next ==
  /\ consumer_alive
  /\ pc = "idle"
  /\ Len(out) < MaxRequests
  /\ Iterate
  /\ startEmpty' = NothingToPlay
  /\ resume' = IF resume # "armed" THEN "no"
               ELSE IF Exhausted(current) THEN "advanced" ELSE "resumed"

\* Iterator::next goes round its loop after a successful go_next
next_loop ==
  /\ consumer_alive
  /\ pc = "loop"
  /\ Iterate
  /\ UNCHANGED <<startEmpty, resume>>

Next ==
  \/ \E len \in 0..MaxLen, fmt \in Formats : append(len, fmt)
  \/ pause
  \/ play
  \/ controller_next
  \/ stop
  \/ next
  \/ next_loop

Spec == Init /\ [][Next]_vars

\* What the actions below leave alone
queue_state == <<keep_alive_if_empty, sound_queue, current, paused, pc>>

\* The SourcesQueue is dropped, between two calls of next: both Receivers go,
\* and the messages still queued on them with them
drop_consumer ==
  /\ consumer_alive
  /\ pc = "idle"
  /\ consumer_alive' = FALSE
  /\ command_channel' = <<>>
  /\ sound_channel' = <<>>
  /\ UNCHANGED <<queue_state, controller_alive, failed, frame, hist>>

\* The SourcesQueueController is dropped: both Senders go, what they sent stays queued
drop_controller ==
  /\ controller_alive
  /\ controller_alive' = FALSE
  /\ backlog' = [cmds |-> Len(command_channel), srcs |-> Len(sound_channel)]
  /\ UNCHANGED <<queue_state, command_channel, sound_channel, consumer_alive, failed, frame,
                 out, appended, lateAppend, sent, stopAt, reqStop, halted, skipped, pauseAt,
                 resume, startEmpty, fresh, applied, refused>>

\* The behaviours in which either end may be dropped; the sources appended
\* all have one format, which no channel operation looks at
DropNext ==
  \/ \E len \in 0..MaxLen : append(len, EmptyFmt)
  \/ pause
  \/ play
  \/ controller_next
  \/ stop
  \/ next
  \/ next_loop
  \/ drop_consumer
  \/ drop_controller

DropSpec == Init /\ [][DropNext]_vars

\* Source::current_frame_len is called while the current source reports frame
\* length F and upper size hint R
ask_frame_len(F, R) ==
  LET src == [current_frame_len |-> F, size_hint |-> R]
  IN /\ consumer_alive
     /\ frame' = [asked |-> TRUE, src |-> src, ret |-> current_frame_len(src)]
     /\ UNCHANGED <<queue_state, command_channel, sound_channel, consumer_alive,
                    controller_alive, failed, hist>>

FrameNext == \E F \in FrameLens, R \in SizeHints : ask_frame_len(F, R)

\* The behaviours in which the frame length is asked of every kind of source
FrameSpec == Init /\ [][FrameNext]_vars

\* ------------------------------------------------------------------ claims
Last(s) == s[Len(s)]

IsSample(o) == o.id > 0

\* The samples of appended sources among the results, in the order returned
Played == SelectSeq(out, IsSample)

\* A call of next returns in this step
Returns == Len(out') = Len(out) + 1

SamplesOfSource(i) == [n \in 1..appended[i] |-> SampleOf(i, n)]

\* The samples of the first k appended sources, one source after the other
RECURSIVE Concat(_)
Concat(k) == IF k = 0 THEN <<>> ELSE Concat(k - 1) \o SamplesOfSource(k)

Expected == Concat(Len(appended))

\* The appended source at the front: the current one, else the first one waiting
FrontId ==
  IF current.id > 0 THEN current.id
  ELSE IF sound_queue # <<>> THEN Head(sound_queue).id
  ELSE IF sound_channel # <<>> THEN Head(sound_channel).id
  ELSE Len(appended) + 1

\* C1: while only Play commands were ever sent, the source samples returned are
\* a prefix of S1's samples, then S2's, ... in append order; every source before
\* the front one was played to its end and the front one up to its position;
\* and if every source was appended before the first call, no silence and no
\* end-of-stream comes before or between the source samples.
C1_Concatenation ==
  sent.plain =>
    /\ Len(Played) <= Len(Expected)
    /\ Played = SubSeq(Expected, 1, Len(Played))
    /\ Len(Played) = Len(Concat(FrontId - 1)) + (IF current.id > 0 THEN current.pos ELSE 0)
    /\ ~lateAppend =>
         \A j \in 1..Len(out) : IsSample(out[j]) => \A i \in 1..j : IsSample(out[i])

\* Two non-empty sources were appended and both were played to the end
C1_Witness ==
  /\ sent.plain /\ Len(appended) = 2 /\ appended[1] >= 1 /\ appended[2] >= 1
  /\ Played = Expected

\* C2: with keep-alive enabled, from the call that handles a Stop on, while
\* nothing is appended after it, every call returns a zero-valued sample.
C2_StopSilencesForever ==
  (keep_alive_if_empty /\ stopAt > 0) => \A j \in stopAt..Len(out) : out[j] = Zero

\* C3: with keep-alive disabled, the call that handles a Stop returns
\* end-of-stream, and no later result is a sample of the source that was
\* current when the Stop was handled.
C3_StopEndsStream ==
  /\ []((~keep_alive_if_empty /\ pc = "idle" /\ reqStop) => Last(out) = EOS)
  /\ [][(~keep_alive_if_empty /\ Returns) => Last(out').id \notin halted']_vars

\* C4: in either keep-alive mode, once a NextTrack was handled no call returns
\* a sample of the source that was current when it was handled.
C4_NextTrackDiscards == [][Returns => Last(out').id \notin skipped']_vars

\* C5 as stated: after Pause is sent, and while no command is sent after it,
\* every call that begins afterwards returns a zero-valued sample.
C5_PauseSilences ==
  pauseAt.from > 0 => \A j \in pauseAt.from..Len(out) : out[j] = Zero

\* C5 amended: the same for a Pause sent while the command channel is empty;
\* from the moment that Pause is sent no step changes the current source; and
\* when Play is sent once the Pause has taken effect, the call that follows
\* returns the sample at the current source's position and advances by one.
C5_PauseFreezes ==
  /\ []((pauseAt.from > 0 /\ pauseAt.clean) =>
          \A j \in pauseAt.from..Len(out) : out[j] = Zero)
  /\ [][(pauseAt.from > 0 /\ pauseAt.clean) => current' = current]_vars
  /\ [][(resume = "armed" /\ resume' = "resumed") =>
          /\ Returns
          /\ Last(out') = (IF current.id = 0 THEN Zero
                           ELSE SampleOf(current.id, current.pos + 1))
          /\ current' = [current EXCEPT !.pos = @ + 1]]_vars

\* A call made while paused returned silence, Play was sent, and the call after
\* it returned the current appended source's next sample
C5_Witness ==
  /\ resume = "resumed" /\ pc = "idle" /\ Len(out) >= 2
  /\ out[Len(out) - 1] = Zero
  /\ current.id > 0 /\ Last(out) = SampleOf(current.id, current.pos)

\* The sources in the order the consumer will play them
Upcoming == <<current>> \o sound_queue \o sound_channel

\* C6: between two calls, with no command waiting and the consumer not paused,
\* channels() and sample_rate() are those of the source whose sample the next
\* call returns: the first source, in playing order, that has a sample left.
C6_ReportedFormat ==
  (/\ pc = "idle" /\ command_channel = <<>> /\ ~paused
   /\ \E i \in 1..Len(Upcoming) : ~Exhausted(Upcoming[i])) =>
    LET first == CHOOSE i \in 1..Len(Upcoming) :
                   /\ ~Exhausted(Upcoming[i])
                   /\ \A k \in 1..(i - 1) : Exhausted(Upcoming[k])
    IN /\ channels = Upcoming[first].fmt.channels
       /\ sample_rate = Upcoming[first].fmt.sample_rate

\* C7: with keep-alive disabled, while nothing was appended and no command
\* sent, the first call of next returned end-of-stream.
C7_ImmediateEnd ==
  (~keep_alive_if_empty /\ Len(appended) = 0 /\ sent.n = 0 /\ Len(out) >= 1) => out[1] = EOS

\* The first call has returned on a consumer that never received anything
C7_Witness ==
  ~keep_alive_if_empty /\ Len(appended) = 0 /\ sent.n = 0 /\ Len(out) = 1 /\ pc = "idle"

\* C8: with keep-alive enabled no call returns end-of-stream, and a call that
\* began with the current source exhausted and nothing waiting returned a
\* zero-valued sample.
C8_KeepAlive ==
  keep_alive_if_empty =>
    /\ \A j \in 1..Len(out) : out[j] # EOS
    /\ (pc = "idle" /\ Len(out) >= 1 /\ startEmpty) => Last(out) = Zero

\* An appended source was played to its end and the next call, which began
\* with nothing left, has returned
C8_Witness ==
  /\ keep_alive_if_empty /\ pc = "idle" /\ startEmpty
  /\ Len(appended) >= 1 /\ appended[1] >= 1 /\ Played = Expected
  /\ Len(out) >= 2 /\ IsSample(out[Len(out) - 1])

\* C9: with keep-alive enabled and no command ever sent, a source appended
\* while the consumer idles on silence supplies the result of the very next call.
C9_NoDelayWhenAdded ==
  (keep_alive_if_empty /\ sent.n = 0 /\ fresh.id > 0 /\ Len(out) >= fresh.req) =>
    out[fresh.req] = SampleOf(fresh.id, 1)

\* C10: once a call has returned end-of-stream, every later call does.
C10_ExhaustedTerminal ==
  \A i \in 1..Len(out) : \A j \in i..Len(out) : out[i] = EOS => out[j] = EOS

\* A step of the consumer: one loop iteration, not a call on the controller
IterationStep == appended' = appended /\ sent' = sent

\* The step receives the command at the head of the command channel
Receives(c) == Handling(c) /\ command_channel' = Tail(command_channel)

\* C15: a call of next that returns from its first loop iteration leaves no
\* source in the source channel: every source appended before it began has
\* been moved to the pending queue or made current.
C15_DrainsSourceChannel ==
  [][(pc = "idle" /\ IterationStep /\ Returns) => sound_channel' = <<>>]_vars

\* C17: the paused flag is false at creation; a step changes it only by
\* handling Play, which leaves it false, or Pause, which leaves it true;
\* handling NextTrack or Stop, receiving a source, advancing, installing
\* silence and returning end-of-stream leave it as it was.
C17_PausedOnlyByPlayPause ==
  /\ ~paused
  /\ [][/\ Receives("Play") => ~paused'
        /\ Receives("Pause") => paused'
        /\ ~(Receives("Play") \/ Receives("Pause")) => paused' = paused]_vars

\* A paused consumer handled a Stop in its latest call and is still paused
C17_Witness == paused /\ reqStop /\ pc = "idle" /\ sound_queue = <<>> /\ Len(appended) >= 1

\* What a loop iteration that does not return uses up: the sources waiting in
\* the queue and the source channel, then the exhausted current source
LoopMeasure ==
  2 * (Len(sound_queue) + Len(sound_channel)) + (IF Exhausted(current) THEN 1 ELSE 0)

\* C18: a call of next never waits: its next loop iteration can always be
\* taken, whatever the channels hold; and every iteration that goes round the
\* loop again strictly lowers LoopMeasure, a natural number that only an append
\* raises, so the loop ends after finitely many iterations.
C18_NextTerminates ==
  /\ [](pc = "loop" => ENABLED next_loop)
  /\ []((pc = "idle" /\ Len(out) < MaxRequests) => ENABLED next)
  /\ [][(IterationStep /\ pc' = "loop") => LoopMeasure' < LoopMeasure]_vars

\* An empty appended source became current and the call goes round its loop again
C18_Witness == pc = "loop" /\ current.id > 0 /\ current.len = 0

\* C19: in either keep-alive mode, a call of next that returns while the
\* paused flag is set returns a zero-valued sample, never end-of-stream.
C19_PausedYieldsSilence ==
  (pc = "idle" /\ paused /\ Len(out) >= 1) => Last(out) = Zero

\* Keep-alive disabled, nothing left to play, and the paused consumer's call
\* returned silence
C19_Witness ==
  /\ ~keep_alive_if_empty /\ paused /\ pc = "idle" /\ NothingToPlay
  /\ Len(out) >= 2 /\ Last(out) = Zero

\* The source appended last while the consumer idled on silence still waits
FreshWaiting ==
  \E i \in 1..Len(sound_queue \o sound_channel) : (sound_queue \o sound_channel)[i].id = fresh.id

\* The zero-valued results in a row from the first call after that append on
FreshZeros ==
  Cardinality({j \in fresh.req..Len(out) : \A i \in fresh.req..j : out[i] = Zero})

\* C20: with keep-alive enabled and no command ever sent, after a non-empty
\* source is appended while the consumer idles on silence, at most SilenceLen
\* calls return a zero-valued sample, the result after them is the source's
\* first sample, and no new silence is installed while the source waits.
C20_BoundedWait ==
  /\ []((keep_alive_if_empty /\ sent.n = 0 /\ fresh.id > 0) =>
          /\ FreshZeros <= SilenceLen
          /\ Len(out) >= fresh.req + FreshZeros =>
               out[fresh.req + FreshZeros] = SampleOf(fresh.id, 1))
  /\ [][(keep_alive_if_empty /\ sent.n = 0 /\ fresh.id > 0 /\ FreshWaiting) =>
          ~(current' # current /\ current' = Silence)]_vars

\* The source waited for the rest of one silence and then played
C20_Witness ==
  /\ keep_alive_if_empty /\ sent.n = 0 /\ fresh.id > 0
  /\ Len(out) >= fresh.req + 1
  /\ out[fresh.req] = Zero /\ out[fresh.req + 1] = SampleOf(fresh.id, 1)

\* C11: whatever the interleaving of the controller's calls with the loop
\* iterations of next, the serials of the commands handled are strictly
\* increasing: no command is handled twice, and commands are handled in the
\* order in which they entered the command channel, which for the calls of one
\* sender is the order in which it made them. A handled command was sent and
\* is no longer in the channel.
C11_AtMostOnceInOrder ==
  /\ \A i, j \in 1..Len(applied) : i < j => applied[i] < applied[j]
  /\ \A i \in 1..Len(applied) :
       /\ applied[i] \in 1..sent.n
       /\ \A j \in 1..Len(command_channel) : command_channel[j].k # applied[i]

\* Two commands were sent and both were handled
C11_Witness == Len(applied) = 2 /\ command_channel = <<>> /\ Len(out) >= 1

\* Calls of next keep being made, and a call in progress keeps running
FairSpec == Spec /\ WF_vars(next) /\ WF_vars(next_loop)

\* The calls of next still to come suffice to handle the command with serial k
CanReach(k) == Len(out) + (k - Len(applied)) <= MaxRequests

\* C16: a call of next that begins with a command waiting handles a command
\* in its first loop iteration, before anything is returned; and while calls
\* keep being made, every command sent is eventually handled (as far as the
\* calls of the model reach: one call for each command not yet handled).
C16_CommandsApplied ==
  /\ [][(pc = "idle" /\ command_channel # <<>> /\ IterationStep) =>
          applied' = Append(applied, Head(command_channel).k)]_vars
  /\ \A k \in 1..MaxCmds : (sent.n >= k /\ CanReach(k)) ~> (\E i \in 1..Len(applied) : applied[i] = k)

\* The second command was handled by a later call than the first
C16_Witness ==
  /\ Len(applied) = 2 /\ pc = "idle" /\ Len(out) >= 2
  /\ ~reqStop /\ stopAt = 1

\* C12: once the consumer is dropped, no call on the controller panics or
\* hands an error to its caller; every one of its operations can be taken (none
\* waits); and a step leaves both channels empty and the consumer's state, its
\* results and the commands it handled as they were.
C12_SendsAfterDrop ==
  /\ [](~failed)
  /\ []((~consumer_alive /\ controller_alive) =>
          /\ sent.n < MaxCmds =>
               ENABLED pause /\ ENABLED play /\ ENABLED controller_next /\ ENABLED stop
          /\ Len(appended) < MaxSources => ENABLED append(0, EmptyFmt))
  /\ [](~consumer_alive => command_channel = <<>> /\ sound_channel = <<>>)
  /\ [][~consumer_alive =>
          UNCHANGED <<queue_state, command_channel, sound_channel, out, applied>>]_vars

\* After the consumer was dropped a source was appended and a command was sent
C12_Witness == ~consumer_alive /\ refused = {"source", "command"}

\* C13: dropping the controller leaves the consumer's state and the messages
\* in flight as they were, and from then on every loop iteration of next does
\* what it would do with the controller alive and silent: the same source or
\* command received and handled, the same result.
C13_ControllerDropHarmless ==
  /\ [][(controller_alive /\ ~controller_alive') =>
          UNCHANGED <<queue_state, command_channel, sound_channel>>]_vars
  /\ []((~controller_alive /\ consumer_alive) =>
          LET dropped == next_iteration(Self)
              alive == next_iteration([Self EXCEPT !.connected = TRUE])
          IN /\ dropped.ret = alive.ret
             /\ dropped.val = alive.val
             /\ [dropped.self EXCEPT !.connected = TRUE] = alive.self)

\* A command and a source were in flight when the controller was dropped, and
\* the consumer has received both since
C13_Witness ==
  /\ ~controller_alive /\ consumer_alive /\ pc = "idle"
  /\ backlog.cmds >= 1 /\ backlog.srcs >= 1
  /\ command_channel = <<>> /\ sound_channel = <<>>

\* C14: the frame length reported is always Some(n) with n >= 1: the frame
\* length F of the current source when F is known and not 0; otherwise its
\* upper size hint R when R is known and 0 < R < THRESHOLD; otherwise THRESHOLD.
C14_FrameLen ==
  frame.asked =>
    LET F == frame.src.current_frame_len
        R == frame.src.size_hint
    IN /\ frame.ret.some
       /\ frame.ret.val >= 1
       /\ frame.ret.val = IF F.some /\ F.val # 0 THEN F.val
                          ELSE IF R.some /\ 0 < R.val /\ R.val < THRESHOLD THEN R.val
                          ELSE THRESHOLD

\* A source reporting frame length 0 and THRESHOLD - 1 samples left was asked
C14_Witness ==
  /\ frame.asked
  /\ frame.src = [current_frame_len |-> Some(0), size_hint |-> Some(THRESHOLD - 1)]
  /\ frame.ret = Some(THRESHOLD - 1)

====
